---- MODULE Spec2Model ----
(***************************************************************************)
(* Model of the Bitget exchange adapter (src/bitget.py, class BitgetBot).  *)
(*                                                                         *)
(* The adapter is one asyncio worker.  The engine calls one operation at  *)
(* a time; an operation runs up to its next network await, the venue       *)
(* answers (a JSON body) or the transport raises, and the operation        *)
(* resumes and returns or raises (pc = "done").  `sent` lists the requests *)
(* issued by the call, `ret` is what it gave back; the engine then takes   *)
(* the result and the worker is idle again.                                *)
(*                                                                         *)
(* Python values: a dict is a record with py |-> "dict" plus its keys, a   *)
(* tuple is [py |-> "tuple", items |-> <<...>>], a list is a sequence.     *)
(* JSON values of a response: null is [t |-> "null"], an object is a       *)
(* record with t |-> "obj" plus its members, an array is                   *)
(* [t |-> "list", v |-> <<...>>].                                          *)
(***************************************************************************)
EXTENDS Integers, Sequences, FiniteSets, TLC

VARIABLES
    product_type,   \* self.product_type: "umcbl" (linear) or "dmcbl" (inverse)
    symbol,         \* self.symbol, with the product suffix
    coin,           \* self.coin (base coin)
    quote,          \* self.quote (quote coin)
    margin_coin,    \* self.margin_coin
    emas_long,      \* self.emas_long (kept by the Bot base class)
    emas_short,     \* self.emas_short
    ob,             \* self.ob = [bid, ask]
    force_update,   \* self.ts_released["force_update"]
    pc,             \* "idle", the await the call in progress is suspended at, or "done"
    call,           \* the operation called last and its arguments
    sent,           \* network requests issued by that call, in order
    recv,           \* what its awaited requests gave (o, cancellation, fetched, ...)
    gather,         \* fetch_position: the two requests under asyncio.gather
    income,         \* get_all_income: the records accumulated by the page walk
    page,           \* get_all_income: the page requested next
    ret,            \* what the call returned or raised
    ws_user,        \* self.ws_user: the user stream's socket
    ws_market,      \* self.ws_market: the market stream's socket
    heart           \* the two heartbeat tasks

cfgVars == <<product_type, symbol, coin, quote, margin_coin, emas_long, emas_short, ob>>
vars == <<product_type, symbol, coin, quote, margin_coin, emas_long, emas_short, ob,
          force_update, pc, call, sent, recv, gather, income, page, ret,
          ws_user, ws_market, heart>>
walkVars == <<income, page>>
streamVars == <<ws_user, ws_market, heart>>

-----------------------------------------------------------------------------
(* Bounds of the model.                                                    *)

MaxData == 2          \* longest "data" array a venue response carries
MaxIncomePages == 3   \* pages the disabled income walk is followed for
IncomeLimit == 2      \* page size of the income walk (limit = 50 in the code)

-----------------------------------------------------------------------------
(* Python and JSON values.                                                 *)

EmptyDict == [py |-> "dict"]
PyTuple(a, b) == [py |-> "tuple", items |-> <<a, b>>]
Returned(v) == [kind |-> "return", val |-> v]
Raised(e) == [kind |-> "raise", exc |-> e]
NoResult == [kind |-> "none"]

Null == [t |-> "null"]
JsonList(s) == [t |-> "list", v |-> s]
\* Python truthiness of a decoded JSON value: None, {} and [] are falsy.
Truthy(d) ==
    CASE d.t = "null" -> FALSE
      [] d.t = "obj"  -> DOMAIN d # {"t"}
      [] d.t = "list" -> Len(d.v) > 0

\* What an awaited request gives: the transport or json.loads raises, or a body.
TransportErrors == { [kind |-> "raise", exc |-> "ClientError"],
                     [kind |-> "raise", exc |-> "JSONDecodeError"] }
Json(body) == [kind |-> "json", body |-> body]

Request(type_, endpoint, params) == [type_ |-> type_, endpoint |-> endpoint, params |-> params]
NoGather == [pos |-> [st |-> "none"], bal |-> [st |-> "none"], exc |-> "none"]

-----------------------------------------------------------------------------
(* __init__: the directional tables and the interval table.                *)

Sides == {"buy", "sell"}
PosSides == {"long", "short"}
Intents == {"open_long", "close_long", "close_short", "open_short"}

order_side_map ==
    [s \in Sides |->
        IF s = "buy" THEN [p \in PosSides |-> IF p = "long" THEN "open_long" ELSE "close_short"]
                     ELSE [p \in PosSides |-> IF p = "long" THEN "close_long" ELSE "open_short"]]

\* A table with one entry wrong.
fill_side_map_swapped ==
    [i \in Intents |->
        CASE i = "close_long"  -> "sell"
          [] i = "open_long"   -> "buy"
          [] i = "close_short" -> "sell"
          [] i = "open_short"  -> "sell"]

fill_side_map ==
    [i \in Intents |->
        CASE i = "close_long"  -> "sell"
          [] i = "open_long"   -> "buy"
          [] i = "close_short" -> "buy"
          [] i = "open_short"  -> "sell"]

broker_code == "Passivbot"

-----------------------------------------------------------------------------
(* init_market_type and _init: the state after construction.               *)


\* No connection yet and no heartbeat task started.
NoSocket == [open |-> FALSE, frames |-> << >>, login |-> "none"]
NoHeart == [user |-> [pc |-> "none"], market |-> [pc |-> "none"]]

Init ==
    /\ product_type \in {"umcbl", "dmcbl"}
    /\ symbol = IF product_type = "umcbl" THEN "BTCUSDT_UMCBL" ELSE "BTCUSD_DMCBL"
    /\ coin = "BTC"
    /\ quote = IF product_type = "umcbl" THEN "USDT" ELSE "USD"
    /\ margin_coin = IF product_type = "dmcbl" THEN coin ELSE quote
    /\ emas_long \in {<<0>>, <<2>>}     \* an EMA is 0.0 until it has warmed up
    /\ emas_short \in {<<0>>, <<8>>}
    /\ ob = <<1, 3>>
    /\ force_update \in {0, 1700}
    /\ pc = "idle"
    /\ call = [op |-> "none"]
    /\ sent = << >>
    /\ recv = << >>
    /\ gather = NoGather
    /\ income = << >>
    /\ page = 1
    /\ ret = NoResult
    /\ ws_user = NoSocket
    /\ ws_market = NoSocket
    /\ heart = NoHeart

-----------------------------------------------------------------------------
(* execute_order                                                           *)

OrderIds == {"7001", "7002"}
Qtys == {1}
RandomStrs == {"123456_42", "123457_7"}

\* Orders the engine hands to execute_order: complete ones, ones carrying a
\* custom_id, and ones without a price (a market order needs none to be sent).
Orders ==
    [side : Sides, position_side : PosSides, type : {"limit", "market"}, qty : Qtys,
     price : {100, 101}]
    \cup [side : Sides, position_side : PosSides, type : {"limit", "market"}, qty : Qtys,
          price : {100}, custom_id : {"entry"}]
    \cup [side : Sides, position_side : PosSides, type : {"limit", "market"}, qty : Qtys]

\* Bodies the venue answers create-order and cancel-order with.
OrderBodies ==
    { [code |-> "40001"],
      [code |-> "40001", data |-> Null],
      [code |-> "00000", data |-> [t |-> "obj"]],
      [code |-> "00000", data |-> [t |-> "obj", clientOid |-> "x"]] }
    \cup { [code |-> "00000", data |-> [t |-> "obj", orderId |-> id, clientOid |-> "x"]] :
             id \in OrderIds }
OrderResponses == TransportErrors \cup { Json(b) : b \in OrderBodies }

\* Building params raises KeyError when the order lacks a key it reads.
ExecuteOrderParamsRaise(order) ==
    \/ ~({"qty", "side", "position_side", "type"} \subseteq DOMAIN order)
    \/ order.type = "limit" /\ "price" \notin DOMAIN order

ExecuteOrderParams(order, random_str) ==
    LET base == [symbol |-> symbol,
                 marginCoin |-> margin_coin,
                 size |-> ToString(order.qty),
                 side |-> order_side_map[order.side][order.position_side],
                 orderType |-> order.type,
                 presetTakeProfitPrice |-> "",
                 presetStopLossPrice |-> "",
                 clientOid |-> [broker |-> broker_code,
                                custom_id |-> IF "custom_id" \in DOMAIN order
                                              THEN order.custom_id ELSE "0",
                                random_str |-> random_str]]
    IN  IF order.type = "limit"
        THEN [k \in DOMAIN base \cup {"timeInForceValue", "price"} |->
                CASE k = "timeInForceValue" -> "post_only"
                  [] k = "price" -> ToString(order.price)
                  [] OTHER -> base[k]]
        ELSE [k \in DOMAIN base \cup {"timeInForceValue"} |->
                IF k = "timeInForceValue" THEN "normal" ELSE base[k]]

\* The part of execute_order after the await, o being what private_post gave.
ExecuteOrderResult(order, o) ==
    IF o.kind = "raise" THEN EmptyDict
    ELSE IF "data" \notin DOMAIN o.body THEN EmptyDict
    ELSE IF Truthy(o.body.data)
         THEN IF "orderId" \notin DOMAIN o.body.data \/ "price" \notin DOMAIN order
              THEN EmptyDict
              ELSE [py |-> "dict",
                    symbol |-> symbol,
                    side |-> order.side,
                    order_id |-> o.body.data.orderId,
                    position_side |-> order.position_side,
                    type |-> order.type,
                    qty |-> order.qty,
                    price |-> order.price]
         ELSE PyTuple(o.body, order)

execute_order(order, random_str) ==
    /\ pc = "idle"
    /\ call' = [op |-> "execute_order", order |-> order]
    /\ recv' = << >>
    /\ IF ExecuteOrderParamsRaise(order)
       THEN /\ sent' = << >>
            /\ ret' = Returned(EmptyDict)
            /\ pc' = "done"
       ELSE /\ sent' = <<Request("post", "create_order", ExecuteOrderParams(order, random_str))>>
            /\ ret' = NoResult
            /\ pc' = "execute_order_await"
    /\ UNCHANGED <<cfgVars, streamVars, walkVars, force_update, gather>>

execute_order_resume(o) ==
    /\ pc = "execute_order_await"
    /\ recv' = <<o>>
    /\ ret' = Returned(ExecuteOrderResult(call.order, o))
    /\ pc' = "done"
    /\ UNCHANGED <<cfgVars, streamVars, walkVars, force_update, call, sent, gather>>

-----------------------------------------------------------------------------
(* execute_cancellation                                                    *)

CancelOrders ==
    [order_id : OrderIds, side : Sides, position_side : PosSides, qty : Qtys, price : {100}]
    \cup [side : Sides, position_side : PosSides, qty : Qtys, price : {100}]
    \cup [order_id : OrderIds, side : Sides, position_side : PosSides, qty : Qtys]

\* TRUE when the code after the await raises inside the try block.
ExecuteCancellationRaises(order, cancellation) ==
    \/ cancellation.kind = "raise"
    \/ "data" \notin DOMAIN cancellation.body
    \/ cancellation.body.data.t # "obj"
    \/ "orderId" \notin DOMAIN cancellation.body.data
    \/ ~({"side", "position_side", "qty", "price"} \subseteq DOMAIN order)

ExecuteCancellationOrder(order, cancellation) ==
    [py |-> "dict",
     symbol |-> symbol,
     side |-> order.side,
     order_id |-> cancellation.body.data.orderId,
     position_side |-> order.position_side,
     qty |-> order.qty,
     price |-> order.price]

\* An except block that forgets the invalidation.
ExecuteCancellationForceUpdate_kept(failed, before) == before

\* ts_released["force_update"] after the call: the except block zeroes it.
ExecuteCancellationForceUpdate(failed, before) == IF failed THEN 0 ELSE before

execute_cancellation(order) ==
    /\ pc = "idle"
    /\ call' = [op |-> "execute_cancellation", order |-> order]
    /\ recv' = << >>
    /\ IF "order_id" \notin DOMAIN order
       THEN /\ sent' = << >>
            /\ force_update' = ExecuteCancellationForceUpdate(TRUE, force_update)
            /\ ret' = Returned(EmptyDict)
            /\ pc' = "done"
       ELSE /\ sent' = <<Request("post", "cancel_order",
                                 [symbol |-> symbol, marginCoin |-> margin_coin,
                                  orderId |-> order.order_id])>>
            /\ force_update' = force_update
            /\ ret' = NoResult
            /\ pc' = "execute_cancellation_await"
    /\ UNCHANGED <<cfgVars, streamVars, walkVars, gather>>

execute_cancellation_resume(cancellation) ==
    /\ pc = "execute_cancellation_await"
    /\ recv' = <<cancellation>>
    /\ LET failed == ExecuteCancellationRaises(call.order, cancellation)
       IN  /\ force_update' = ExecuteCancellationForceUpdate(failed, force_update)
           /\ ret' = IF failed THEN Returned(EmptyDict)
                      ELSE Returned(ExecuteCancellationOrder(call.order, cancellation))
    /\ pc' = "done"
    /\ UNCHANGED <<cfgVars, streamVars, walkVars, call, sent, gather>>

-----------------------------------------------------------------------------
(* Collaborators imported by the adapter: round_ (njit_funcs) and          *)
(* truncate_float.  Quantities are counted in half quantity steps, prices  *)
(* in thousandths, so that rounding and truncation have something to do.   *)

qty_step == 2          \* self.qty_step, in half steps
price_rounding == 1    \* self.price_rounding: decimals kept

Abs(n) == IF n < 0 THEN -n ELSE n

\* round_(n, step): the multiple of step nearest to n, ties to the even multiple.
round_(n, step) ==
    LET q == n \div step
        r == n % step
    IN  IF 2 * r < step THEN q * step
        ELSE IF 2 * r > step THEN (q + 1) * step
        ELSE IF q % 2 = 0 THEN q * step ELSE (q + 1) * step

RECURSIVE Pow10(_)
Pow10(d) == IF d = 0 THEN 1 ELSE 10 * Pow10(d - 1)

PriceScale == Pow10(3)   \* thousandths per price unit

\* truncate_float(x, d): cut the decimal string of x after d decimals.
truncate_float(x, d) ==
    LET unit == PriceScale \div Pow10(d)
    IN  IF x >= 0 THEN (x \div unit) * unit ELSE -((-x \div unit) * unit)

RECURSIVE SumSeq(_)
SumSeq(s) == IF s = << >> THEN 0 ELSE Head(s) + SumSeq(Tail(s))

\* np.mean(xs) as the fraction sum/len.
Mean(xs) == [num |-> SumSeq(xs), den |-> Len(xs)]

-----------------------------------------------------------------------------
(* fetch_position                                                          *)

FlatSide == [size |-> 0, price |-> 0, liquidation_price |-> 0]
FlatPosition ==
    [py |-> "dict", long |-> FlatSide, short |-> FlatSide,
     wallet_balance |-> [num |-> 0, den |-> 1]]

PositionElms ==
    [holdSide : PosSides, total : {-3, 3}, averageOpenPrice : {20159},
     liquidationPrice : {15000}]
BalanceElms == [marginCoin : {"USDT", "BTC"}, available : {3, 5}]

SeqsUpTo(S, n) == UNION { [1..k -> S] : k \in 0..n }

ListBodies(Elms) ==
    { [code |-> "40001"], [code |-> "40001", data |-> Null] }
    \cup { [code |-> "00000", data |-> JsonList(s)] : s \in SeqsUpTo(Elms, MaxData) }
PositionResponses == TransportErrors \cup { Json(b) : b \in ListBodies(PositionElms) }
BalanceResponses == TransportErrors \cup { Json(b) : b \in ListBodies(BalanceElms) }

\* Iterating body["data"] raises when the key is missing or the value is null.
DataRaises(body) == "data" \notin DOMAIN body \/ body.data.t # "list"
DataExc(body) == IF "data" \notin DOMAIN body THEN "KeyError" ELSE "TypeError"

\* The size stored for a long element.
LongSize(elm) == round_(elm.total, qty_step)
\* The size stored for a short element.
ShortSize(elm) == -Abs(round_(elm.total, qty_step))

\* The first loop: every element overwrites the entry of its side.
RECURSIVE FetchPositionSides(_, _)
FetchPositionSides(data, position) ==
    IF data = << >> THEN position
    ELSE LET elm == Head(data)
             entry(size) ==
                 [size |-> size,
                  price |-> truncate_float(elm.averageOpenPrice, price_rounding),
                  liquidation_price |-> elm.liquidationPrice]
         IN  FetchPositionSides(
                 Tail(data),
                 IF elm.holdSide = "long"
                 THEN [position EXCEPT !.long = entry(LongSize(elm))]
                 ELSE IF elm.holdSide = "short"
                 THEN [position EXCEPT !.short = entry(ShortSize(elm))]
                 ELSE position)

\* A conversion that takes the EMAs whatever they are.
ConversionPrices_noFallback == emas_long \o emas_short

\* The price an inverse contract's balance is converted with.
ConversionPrices ==
    LET all_emas == emas_long \o emas_short
    IN  IF \E i \in DOMAIN all_emas : all_emas[i] = 0 THEN ob ELSE all_emas

\* The second loop: the first record of the margin coin sets wallet_balance.
RECURSIVE FetchPositionBalance(_, _)
FetchPositionBalance(data, position) ==
    IF data = << >> THEN position
    ELSE LET elm == Head(data)
         IN  IF elm.marginCoin = margin_coin
             THEN IF product_type = "dmcbl"
                  THEN LET m == Mean(ConversionPrices)
                       IN  [position EXCEPT !.wallet_balance =
                               [num |-> elm.available * m.num, den |-> m.den]]
                  ELSE [position EXCEPT !.wallet_balance =
                               [num |-> elm.available, den |-> 1]]
             ELSE FetchPositionBalance(Tail(data), position)

\* The body of fetch_position after the gather, given the two decoded bodies.
FetchPositionResult(fetched_pos, fetched_balance) ==
    IF DataRaises(fetched_pos) THEN Raised(DataExc(fetched_pos))
    ELSE IF DataRaises(fetched_balance) THEN Raised(DataExc(fetched_balance))
    ELSE Returned(FetchPositionBalance(fetched_balance.data.v,
                      FetchPositionSides(fetched_pos.data.v, FlatPosition)))

\* asyncio.gather wakes its awaiter when a child has raised or all are done.
GatherSettled(g) ==
    \/ g.exc # "none"
    \/ g.pos.st = "done" /\ g.bal.st = "done"

\* A join that swallows a failed or missing request as an empty answer.
FetchPositionOutcome_partial(g) ==
    LET body(slot) == IF slot.st = "done" THEN slot.body
                      ELSE [code |-> "00000", data |-> JsonList(<< >>)]
    IN  FetchPositionResult(body(g.pos), body(g.bal))

\* What the awaiter gets: the first exception raised, else both results.
FetchPositionOutcome(g) ==
    IF g.exc # "none" THEN Raised(g.exc)
    ELSE FetchPositionResult(g.pos.body, g.bal.body)

Pending == [st |-> "pending"]
SlotOf(r) == IF r.kind = "raise" THEN [st |-> "raised", exc |-> r.exc]
             ELSE [st |-> "done", body |-> r.body]
FirstExc(g, r) == IF g.exc = "none" /\ r.kind = "raise" THEN r.exc ELSE g.exc

fetch_position ==
    /\ pc = "idle"
    /\ call' = [op |-> "fetch_position"]
    /\ recv' = << >>
    /\ sent' = <<Request("get", "position", [symbol |-> symbol, marginCoin |-> margin_coin]),
                 Request("get", "balance", [productType |-> product_type])>>
    /\ gather' = [pos |-> Pending, bal |-> Pending, exc |-> "none"]
    /\ ret' = NoResult
    /\ pc' = "fetch_position_await"
    /\ UNCHANGED <<cfgVars, streamVars, walkVars, force_update>>

\* The position request completes.
gather_position(r) ==
    /\ pc = "fetch_position_await"
    /\ gather.pos.st = "pending"
    /\ gather' = [gather EXCEPT !.pos = SlotOf(r), !.exc = FirstExc(gather, r)]
    /\ UNCHANGED <<cfgVars, streamVars, walkVars, force_update, pc, call, sent, recv, ret>>

\* The balance request completes.
gather_balance(r) ==
    /\ pc = "fetch_position_await"
    /\ gather.bal.st = "pending"
    /\ gather' = [gather EXCEPT !.bal = SlotOf(r), !.exc = FirstExc(gather, r)]
    /\ UNCHANGED <<cfgVars, streamVars, walkVars, force_update, pc, call, sent, recv, ret>>

fetch_position_resume ==
    /\ pc = "fetch_position_await"
    /\ GatherSettled(gather)
    /\ ret' = FetchPositionOutcome(gather)
    /\ pc' = "done"
    /\ UNCHANGED <<cfgVars, streamVars, walkVars, force_update, call, sent, recv, gather>>

-----------------------------------------------------------------------------
(* get_server_time, fetch_fills.  Times are counted in seconds: the code's *)
(* millisecond values are 1000 times the values here.                      *)

None == [none |-> TRUE]
Some(v) == [none |-> FALSE, v |-> v]

ServerTimes == {1700000000}     \* what the venue's clock reads
Clock == {1700000002}           \* what time() reads
DaySeconds == 60 * 60 * 24

ServerTimeResponses ==
    TransportErrors
    \cup { Json([code |-> "40001"]),
           Json([code |-> "40001", data |-> Null]) }
    \cup { Json([code |-> "00000", data |-> [t |-> "num", v |-> t]]) : t \in ServerTimes }

\* get_server_time after its await: float(now["data"]).
GetServerTime(now) ==
    IF now.kind = "raise" THEN Raised(now.exc)
    ELSE IF "data" \notin DOMAIN now.body THEN Raised("KeyError")
    ELSE IF now.body.data.t # "num" THEN Raised("TypeError")
    ELSE Returned(now.body.data.v)

FillSides == Intents \cup {"burst_close_long"}
FillElms ==
    [symbol : {"BTCUSDT_UMCBL"}, tradeId : {501}, orderId : {7001}, side : FillSides,
     price : {100}, sizeQty : {1}, profit : {0}, fillAmount : {100}, fee : {0},
     cTime : {1699999000}]
FillsResponses == TransportErrors \cup { Json(b) : b \in ListBodies(FillElms) }

Max(a, b) == IF a >= b THEN a ELSE b

\* "long" in x["side"]
ContainsLong(side) == side \in {"open_long", "close_long", "burst_close_long"}

FetchFillsParams(from_id, startTime, now) ==
    LET base == [symbol |-> symbol, startTime |-> startTime,
                 endTime |-> now + DaySeconds]
    IN  IF from_id.none THEN base
        ELSE [k \in DOMAIN base \cup {"lastEndId"} |->
                IF k = "lastEndId" THEN Max(0, from_id.v - 1) ELSE base[k]]

FetchFillsFill(x) ==
    [symbol |-> x.symbol,
     id |-> x.tradeId,
     order_id |-> x.orderId,
     side |-> fill_side_map[x.side],
     price |-> x.price,
     qty |-> x.sizeQty,
     realized_pnl |-> x.profit,
     cost |-> x.fillAmount,
     fee_paid |-> x.fee,
     fee_token |-> quote,
     timestamp |-> x.cTime,
     position_side |-> IF ContainsLong(x.side) THEN "long" ELSE "short",
     is_maker |-> "unknown"]

\* The try block of fetch_fills: anything raised inside it gives [].
FetchFillsResult(fetched) ==
    IF fetched.kind = "raise" THEN << >>
    ELSE IF DataRaises(fetched.body) THEN << >>
    ELSE LET data == fetched.body.data.v
         IN  IF \E i \in DOMAIN data : data[i].side \notin DOMAIN fill_side_map
             THEN << >>
             ELSE [i \in DOMAIN data |-> FetchFillsFill(data[i])]

\* What a failed get_server_time does to fetch_fills: it is awaited outside
\* the try block, so the exception leaves fetch_fills.
FetchFillsServerTimeFailure(exc) == Raised(exc)

StartTimes == {None, Some(1699990000)}

fetch_fills(from_id, start_time, now) ==
    /\ pc = "idle"
    /\ call' = [op |-> "fetch_fills", from_id |-> from_id, start_time |-> start_time]
    /\ recv' = << >>
    /\ ret' = NoResult
    /\ IF start_time.none
       THEN /\ sent' = <<Request("get", "server_time", << >>)>>
            /\ pc' = "fetch_fills_await_time"
       ELSE /\ sent' = <<Request("get", "fills", FetchFillsParams(from_id, start_time.v, now))>>
            /\ pc' = "fetch_fills_await_fills"
    /\ UNCHANGED <<cfgVars, streamVars, walkVars, force_update, gather>>

fetch_fills_server_time(answer, now) ==
    /\ pc = "fetch_fills_await_time"
    /\ recv' = <<answer>>
    /\ LET server_time == GetServerTime(answer)
       IN  IF server_time.kind = "raise"
           THEN /\ ret' = FetchFillsServerTimeFailure(server_time.exc)
                /\ pc' = "done"
                /\ sent' = sent
           ELSE /\ sent' = Append(sent, Request("get", "fills",
                               FetchFillsParams(call.from_id, server_time.val - DaySeconds, now)))
                /\ pc' = "fetch_fills_await_fills"
                /\ ret' = ret
    /\ UNCHANGED <<cfgVars, streamVars, walkVars, force_update, call, gather>>

fetch_fills_resume(fetched) ==
    /\ pc = "fetch_fills_await_fills"
    /\ recv' = Append(recv, fetched)
    /\ ret' = Returned(FetchFillsResult(fetched))
    /\ pc' = "done"
    /\ UNCHANGED <<cfgVars, streamVars, walkVars, force_update, call, sent, gather>>

-----------------------------------------------------------------------------
(* fetch_open_orders                                                       *)

OpenOrderElms ==
    [orderId : {"7001"}, clientOid : {"Passivbot#0_123456_42"}, symbol : {"BTCUSDT_UMCBL"},
     price : {100}, size : {1}, side : Intents, posSide : PosSides, cTime : {1699999000}]
OpenOrdersResponses == TransportErrors \cup { Json(b) : b \in ListBodies(OpenOrderElms) }

\* "buy" if elm["side"] in ["close_short", "open_long"] else "sell"
OpenOrderSide(side) == IF side \in {"close_short", "open_long"} THEN "buy" ELSE "sell"

FetchOpenOrdersOrder(elm) ==
    [order_id |-> elm.orderId,
     custom_id |-> elm.clientOid,
     symbol |-> elm.symbol,
     price |-> elm.price,
     qty |-> elm.size,
     side |-> OpenOrderSide(elm.side),
     position_side |-> elm.posSide,
     timestamp |-> elm.cTime]

FetchOpenOrdersResult(fetched) ==
    IF fetched.kind = "raise" THEN Raised(fetched.exc)
    ELSE IF DataRaises(fetched.body) THEN Raised(DataExc(fetched.body))
    ELSE Returned([i \in DOMAIN fetched.body.data.v |->
                      FetchOpenOrdersOrder(fetched.body.data.v[i])])

fetch_open_orders ==
    /\ pc = "idle"
    /\ call' = [op |-> "fetch_open_orders"]
    /\ sent' = <<Request("get", "open_orders", [symbol |-> symbol])>>
    /\ recv' = << >>
    /\ ret' = NoResult
    /\ pc' = "fetch_open_orders_await"
    /\ UNCHANGED <<cfgVars, streamVars, walkVars, force_update, gather>>

fetch_open_orders_resume(fetched) ==
    /\ pc = "fetch_open_orders_await"
    /\ recv' = <<fetched>>
    /\ ret' = FetchOpenOrdersResult(fetched)
    /\ pc' = "done"
    /\ UNCHANGED <<cfgVars, streamVars, walkVars, force_update, call, sent, gather>>

-----------------------------------------------------------------------------
(* fetch_ohlcvs                                                            *)

SupportedIntervals == {"1m", "5m", "15m", "30m", "1h", "4h", "12h", "1d", "1w"}
Intervals == SupportedIntervals \cup {"2h", "3m"}

\* self.interval_map: interval -> seconds
interval_map ==
    [k \in SupportedIntervals |->
        CASE k = "1m"  -> 60
          [] k = "5m"  -> 300
          [] k = "15m" -> 900
          [] k = "30m" -> 1800
          [] k = "1h"  -> 3600
          [] k = "4h"  -> 14400
          [] k = "12h" -> 43200
          [] k = "1d"  -> 86400
          [] k = "1w"  -> 604800]

ohlcv_limit == 100

\* The candles endpoint answers with a bare array of rows, or an error object.
CandleRow == <<1699999980, 100, 102, 99, 101, 12>>
CandleResponses ==
    TransportErrors
    \cup { [kind |-> "json", body |-> JsonList(<< >>)],
           [kind |-> "json", body |-> JsonList(<<CandleRow>>)],
           [kind |-> "json", body |-> [t |-> "obj", code |-> "40001"]] }

\* A slip that reads the clock before it looks at the interval.
FetchOhlcvsFirstStep_late(start_time, interval, debug) ==
    IF start_time.none THEN "server_time"
    ELSE IF interval \notin DOMAIN interval_map
    THEN IF debug THEN "AssertionError" ELSE "KeyError"
    ELSE "candles"

\* What fetch_ohlcvs does first: it raises on an interval outside the table
\* (the assert, or with asserts compiled out by python -O the table lookup
\* that builds params), else it awaits the server time or the candles.
FetchOhlcvsFirstStep(start_time, interval, debug) ==
    IF interval \notin DOMAIN interval_map
    THEN IF debug THEN "AssertionError" ELSE "KeyError"
    ELSE IF start_time.none THEN "server_time" ELSE "candles"

FetchOhlcvsParams(interval, startTime) ==
    [symbol |-> symbol,
     granularity |-> ToString(interval_map[interval]),
     startTime |-> startTime,
     endTime |-> startTime + interval_map[interval] * ohlcv_limit]

FetchOhlcvsCandle(e) ==
    [timestamp |-> e[1], open |-> e[2], high |-> e[3], low |-> e[4], close |-> e[5],
     volume |-> e[6]]

\* The list comprehension over fetched; iterating an error object yields its
\* keys, whose characters float() rejects.
FetchOhlcvsResult(fetched) ==
    IF fetched.kind = "raise" THEN Raised(fetched.exc)
    ELSE IF fetched.body.t # "list" THEN Raised("ValueError")
    ELSE Returned([i \in DOMAIN fetched.body.v |-> FetchOhlcvsCandle(fetched.body.v[i])])

fetch_ohlcvs(start_time, interval, debug) ==
    /\ pc = "idle"
    /\ call' = [op |-> "fetch_ohlcvs", start_time |-> start_time, interval |-> interval]
    /\ recv' = << >>
    /\ LET first == FetchOhlcvsFirstStep(start_time, interval, debug)
       IN  IF first \notin {"server_time", "candles"}
           THEN /\ sent' = << >>
                /\ ret' = Raised(first)
                /\ pc' = "done"
           ELSE IF first = "server_time"
           THEN /\ sent' = <<Request("get", "server_time", << >>)>>
                /\ ret' = NoResult
                /\ pc' = "fetch_ohlcvs_await_time"
           ELSE /\ sent' = <<Request("get", "ohlcvs", FetchOhlcvsParams(interval, start_time.v))>>
                /\ ret' = NoResult
                /\ pc' = "fetch_ohlcvs_await_candles"
    /\ UNCHANGED <<cfgVars, streamVars, walkVars, force_update, gather>>

fetch_ohlcvs_server_time(now) ==
    /\ pc = "fetch_ohlcvs_await_time"
    /\ recv' = <<now>>
    /\ LET server_time == GetServerTime(now)
       IN  IF server_time.kind = "raise"
           THEN /\ ret' = Raised(server_time.exc)
                /\ pc' = "done"
                /\ sent' = sent
           ELSE /\ sent' = Append(sent, Request("get", "ohlcvs",
                               FetchOhlcvsParams(call.interval,
                                   server_time.val - interval_map[call.interval] * ohlcv_limit)))
                /\ pc' = "fetch_ohlcvs_await_candles"
                /\ ret' = ret
    /\ UNCHANGED <<cfgVars, streamVars, walkVars, force_update, call, gather>>

fetch_ohlcvs_resume(fetched) ==
    /\ pc = "fetch_ohlcvs_await_candles"
    /\ recv' = Append(recv, fetched)
    /\ ret' = FetchOhlcvsResult(fetched)
    /\ pc' = "done"
    /\ UNCHANGED <<cfgVars, streamVars, walkVars, force_update, call, sent, gather>>

-----------------------------------------------------------------------------
(* Operations the adapter does not support.                                *)

TransferResult ==
    [py |-> "dict", code |-> "-1", msg |-> "Transferring funds not supported for Bybit"]

\* What each of these operations does on entry.
UnsupportedOutcome(op) ==
    IF op = "transfer" THEN Returned(TransferResult)
    ELSE Raised("NotImplementedError")

UnsupportedOps ==
    {"transfer", "transfer_from_derivatives_to_spot", "get_all_income", "fetch_income",
     "fetch_account"}

Unsupported(op) ==
    /\ pc = "idle"
    /\ call' = [op |-> op]
    /\ sent' = << >>
    /\ recv' = << >>
    /\ ret' = UnsupportedOutcome(op)
    /\ pc' = "done"
    /\ UNCHANGED <<cfgVars, streamVars, walkVars, force_update, gather>>

transfer == Unsupported("transfer")
transfer_from_derivatives_to_spot == Unsupported("transfer_from_derivatives_to_spot")
get_all_income == Unsupported("get_all_income")
fetch_income == Unsupported("fetch_income")
fetch_account == Unsupported("fetch_account")

-----------------------------------------------------------------------------
(* The disabled income history: the code of fetch_income and of            *)
(* get_all_income that follows their raise NotImplementedError.  It cannot *)
(* run in the adapter as written (see Unsupported); SpecIncome runs it as  *)
(* it would run with the two raise statements removed and a symbol given.  *)

IncomeElms == [id : {1, 2}, created_at : {1, 2}]

\* Insert e into the sorted sequence s after every element with a key <= its own.
RECURSIVE InsertByTimestamp(_, _)
InsertByTimestamp(s, e) ==
    IF s = << >> THEN <<e>>
    ELSE IF Head(s).timestamp <= e.timestamp
         THEN <<Head(s)>> \o InsertByTimestamp(Tail(s), e)
         ELSE <<e>> \o s

\* sorted(xs, key=lambda x: x["timestamp"]): stable.
RECURSIVE SortedByTimestamp(_)
SortedByTimestamp(xs) ==
    IF xs = << >> THEN << >>
    ELSE InsertByTimestamp(SortedByTimestamp(SubSeq(xs, 1, Len(xs) - 1)), xs[Len(xs)])

FetchIncomeRecord(e, current_page) ==
    [symbol |-> symbol,
     income_type |-> "trade",
     income |-> 0,
     token |-> margin_coin,
     timestamp |-> e.created_at * 1000,
     info |-> [page |-> current_page],
     transaction_id |-> e.id,
     trade_id |-> "7001"]

\* What the venue answers a page request with.
IncomeResponses(p) ==
    TransportErrors
    \cup { Json([result |-> [current_page |-> p, data |-> Null]]) }
    \cup { Json([result |-> [current_page |-> c, data |-> JsonList(d)]]) :
             c \in {p, Max(1, p - 1)}, d \in SeqsUpTo(IncomeElms, IncomeLimit) }

\* fetch_income after its await: [] on any exception or on null data.
FetchIncomeResult(fetched) ==
    IF fetched.kind = "raise" THEN << >>
    ELSE IF fetched.body.result.data.t = "null" THEN << >>
    ELSE LET d == fetched.body.result.data.v
         IN  SortedByTimestamp([i \in DOMAIN d |->
                 FetchIncomeRecord(d[i], fetched.body.result.current_page)])

\* xs[-n:]
LastN(xs, n) == SubSeq(xs, Max(1, Len(xs) - n + 1), Len(xs))

\* {e["transaction_id"]: e for e in xs}.values(): one entry per id, at the
\* place of the id's first record, holding its last record.
RECURSIVE DictValues(_)
DictValues(xs) ==
    IF xs = << >> THEN << >>
    ELSE LET last == xs[Len(xs)]
             before == DictValues(SubSeq(xs, 1, Len(xs) - 1))
         IN  IF \E i \in DOMAIN before : before[i].transaction_id = last.transaction_id
             THEN [i \in DOMAIN before |->
                     IF before[i].transaction_id = last.transaction_id THEN last
                     ELSE before[i]]
             ELSE Append(before, last)

GetAllIncomeResult(xs) == SortedByTimestamp(DictValues(xs))

\* TRUE when the loop leaves after this page: an empty page, a page equal to
\* the tail of income, or a short page.
GetAllIncomeBreaks(fetched, acc) ==
    \/ Len(fetched) = 0
    \/ fetched = LastN(acc, Len(fetched))
    \/ Len(fetched) < IncomeLimit

\* One turn of the while loop: the page request, its answer, and the breaks.
get_all_income_page(response) ==
    /\ pc = "get_all_income_loop"
    /\ page <= MaxIncomePages
    /\ LET fetched == FetchIncomeResult(response)
           taken == IF Len(fetched) = 0 \/ fetched = LastN(income, Len(fetched))
                    THEN income ELSE income \o fetched
       IN  /\ income' = taken
           /\ sent' = Append(sent, Request("get", "income",
                          [limit |-> IncomeLimit, symbol |-> symbol, page |-> page]))
           /\ IF GetAllIncomeBreaks(fetched, income)
              THEN /\ pc' = "done"
                   /\ ret' = Returned(GetAllIncomeResult(taken))
                   /\ page' = page
              ELSE /\ pc' = pc
                   /\ ret' = ret
                   /\ page' = page + 1
    /\ UNCHANGED <<cfgVars, streamVars, force_update, call, recv, gather>>

InitIncome ==
    /\ product_type \in {"umcbl", "dmcbl"}
    /\ symbol = IF product_type = "umcbl" THEN "BTCUSDT_UMCBL" ELSE "BTCUSD_DMCBL"
    /\ coin = "BTC"
    /\ quote = IF product_type = "umcbl" THEN "USDT" ELSE "USD"
    /\ margin_coin = IF product_type = "dmcbl" THEN coin ELSE quote
    /\ emas_long = <<2>>
    /\ emas_short = <<2>>
    /\ ob = <<1, 3>>
    /\ force_update = 1700
    /\ pc = "get_all_income_loop"
    /\ call = [op |-> "get_all_income", symbol |-> symbol]
    /\ sent = << >>
    /\ recv = << >>
    /\ gather = NoGather
    /\ income = << >>
    /\ page = 1
    /\ ret = NoResult
    /\ ws_user = NoSocket
    /\ ws_market = NoSocket
    /\ heart = NoHeart

NextIncome == \E response \in IncomeResponses(page) : get_all_income_page(response)

SpecIncome == InitIncome /\ [][NextIncome]_vars

-----------------------------------------------------------------------------
(* The engine takes the result of the finished call; the worker is idle.   *)

call_returns ==
    /\ pc = "done"
    /\ pc' = "idle"
    /\ call' = [op |-> "none"]
    /\ sent' = << >>
    /\ recv' = << >>
    /\ gather' = NoGather
    /\ ret' = NoResult
    /\ UNCHANGED <<cfgVars, streamVars, walkVars, force_update>>

-----------------------------------------------------------------------------

Next ==
    \/ \E order \in Orders, r \in RandomStrs : execute_order(order, r)
    \/ \E o \in OrderResponses : execute_order_resume(o)
    \/ \E order \in CancelOrders : execute_cancellation(order)
    \/ \E c \in OrderResponses : execute_cancellation_resume(c)
    \/ fetch_position
    \/ \E r \in PositionResponses : gather_position(r)
    \/ \E r \in BalanceResponses : gather_balance(r)
    \/ fetch_position_resume
    \/ \E f \in {None, Some(0), Some(502)}, t \in StartTimes, now \in Clock : fetch_fills(f, t, now)
    \/ \E answer \in ServerTimeResponses, now \in Clock : fetch_fills_server_time(answer, now)
    \/ \E r \in FillsResponses : fetch_fills_resume(r)
    \/ fetch_open_orders
    \/ \E r \in OpenOrdersResponses : fetch_open_orders_resume(r)
    \/ \E t \in StartTimes, i \in Intervals, debug \in BOOLEAN : fetch_ohlcvs(t, i, debug)
    \/ \E now \in ServerTimeResponses : fetch_ohlcvs_server_time(now)
    \/ \E r \in CandleResponses : fetch_ohlcvs_resume(r)
    \/ transfer
    \/ transfer_from_derivatives_to_spot
    \/ get_all_income
    \/ fetch_income
    \/ fetch_account
    \/ call_returns

Spec == Init /\ [][Next]_vars

-----------------------------------------------------------------------------
(* private_ / private_get: the signed request.  A params dict is the       *)
(* sequence of its items in insertion order; a string that the code builds *)
(* by concatenation is the sequence of its pieces.                         *)

MaxParams == 2      \* most items a params dict holds

secret == "api-secret"
key == "api-key"
passphrase == "api-passphrase"

\* Keys in the order sorted() gives them (by code point).
ParamKeyOrder == <<"leverage", "reduceOnly", "symbol">>
KeyRank(k) == CHOOSE i \in DOMAIN ParamKeyOrder : ParamKeyOrder[i] = k

ParamItems ==
    { [k |-> "leverage", v |-> [t |-> "int", n |-> 20]],
      [k |-> "reduceOnly", v |-> [t |-> "bool", b |-> TRUE]],
      [k |-> "reduceOnly", v |-> [t |-> "bool", b |-> FALSE]],
      [k |-> "symbol", v |-> [t |-> "str", s |-> "BTCUSDT_UMCBL"]] }
\* Dicts: item sequences without a repeated key.
ParamDicts ==
    { d \in SeqsUpTo(ParamItems, MaxParams) :
        \A i, j \in DOMAIN d : d[i].k = d[j].k => i = j }
SignTimestamps == {1700000000, 1700000001}

\* ("true" if v else "false") if type(v) == bool else str(v)
SerializeValue(v) ==
    CASE v.t = "bool" -> (IF v.b THEN "true" ELSE "false")
      [] v.t = "int"  -> ToString(v.n)
      [] v.t = "str"  -> v.s

\* The dict comprehension that stringifies every value, order kept.
StringifyParams(params) ==
    [i \in DOMAIN params |-> [k |-> params[i].k, v |-> SerializeValue(params[i].v)]]

RECURSIVE InsertByKey(_, _)
InsertByKey(s, e) ==
    IF s = << >> THEN <<e>>
    ELSE IF KeyRank(Head(s).k) <= KeyRank(e.k)
         THEN <<Head(s)>> \o InsertByKey(Tail(s), e)
         ELSE <<e>> \o s

\* sort_dict_keys(d): the items in ascending key order.
RECURSIVE sort_dict_keys(_)
sort_dict_keys(d) ==
    IF d = << >> THEN << >>
    ELSE InsertByKey(sort_dict_keys(SubSeq(d, 1, Len(d) - 1)), d[Len(d)])

\* urlencode(d): k=v pieces joined by "&", in the dict's order.
RECURSIVE urlencode(_)
urlencode(d) ==
    IF d = << >> THEN << >>
    ELSE IF Len(d) = 1 THEN <<d[1].k, "=", d[1].v>>
    ELSE <<d[1].k, "=", d[1].v, "&">> \o urlencode(Tail(d))

\* json.dumps(d): the items in the dict's order.
RECURSIVE json_dumps(_)
json_dumps(d) ==
    IF d = << >> THEN << >>
    ELSE <<d[1].k, ":", d[1].v, ",">> \o json_dumps(Tail(d))

\* A GET that signs the query in insertion order.
ToSign_unsorted(type_, url, params, timestamp) ==
    <<ToString(timestamp), "GET", url, "?">> \o urlencode(StringifyParams(params))

\* to_sign of private_: timestamp, verb, path, then the sorted query string
\* of a GET or the JSON body of a POST.
ToSign(type_, url, params, timestamp) ==
    IF type_ = "get"
    THEN <<ToString(timestamp), "GET", url, "?">>
             \o urlencode(sort_dict_keys(StringifyParams(params)))
    ELSE <<ToString(timestamp), "POST", url>> \o json_dumps(StringifyParams(params))

\* base64(HMAC-SHA256(secret, message)): determined by, and taken to
\* determine, the secret and the message.
Signature(secret_, to_sign) == [hmac_sha256_key |-> secret_, message |-> to_sign]

SignedRequest(type_, url, params, timestamp) ==
    LET to_sign == ToSign(type_, url, params, timestamp)
    IN  [type_ |-> type_,
         url |-> url,
         params |-> params,
         timestamp |-> timestamp,
         to_sign |-> to_sign,
         header |-> [content_type |-> "application/json",
                     locale |-> "en-US",
                     access_key |-> key,
                     access_sign |-> Signature(secret, to_sign),
                     access_timestamp |-> ToString(timestamp),
                     access_passphrase |-> passphrase]]

\* private_get up to the request it puts on the wire; `sent` keeps the two
\* latest requests.
private_get(url, params, timestamp) ==
    /\ pc = "idle"
    /\ call' = [op |-> "private_get"]
    /\ sent' = LastN(Append(sent, SignedRequest("get", url, params, timestamp)), 2)
    /\ UNCHANGED <<cfgVars, streamVars, walkVars, force_update, pc, recv, gather, ret>>

\* private_post up to the request it puts on the wire.
private_post(url, params, timestamp) ==
    /\ pc = "idle"
    /\ call' = [op |-> "private_post"]
    /\ sent' = LastN(Append(sent, SignedRequest("post", url, params, timestamp)), 2)
    /\ UNCHANGED <<cfgVars, streamVars, walkVars, force_update, pc, recv, gather, ret>>

InitSign ==
    /\ product_type = "umcbl"
    /\ symbol = "BTCUSDT_UMCBL"
    /\ coin = "BTC"
    /\ quote = "USDT"
    /\ margin_coin = quote
    /\ emas_long = <<2>>
    /\ emas_short = <<2>>
    /\ ob = <<1, 3>>
    /\ force_update = 1700
    /\ pc = "idle"
    /\ call = [op |-> "none"]
    /\ sent = << >>
    /\ recv = << >>
    /\ gather = NoGather
    /\ income = << >>
    /\ page = 1
    /\ ret = NoResult
    /\ ws_user = NoSocket
    /\ ws_market = NoSocket
    /\ heart = NoHeart

NextSign ==
    \E params \in ParamDicts, timestamp \in SignTimestamps :
        \/ private_get("/api/mix/v1/order/current", params, timestamp)
        \/ private_post("/api/mix/v1/order/placeOrder", params, timestamp)

SpecSign == InitSign /\ [][NextSign]_vars

-----------------------------------------------------------------------------
(* subscribe_to_user_stream and subscribe_to_market_stream.  A socket is   *)
(* its open flag, the frames sent on it in order, and, on the venue's      *)
(* side, how far the session's login has got.                              *)

Upper(p) == IF p = "umcbl" THEN "UMCBL" ELSE "DMCBL"

LoginFrame(timestamp) ==
    [op |-> "login",
     args |-> <<[apiKey |-> key,
                 passphrase |-> passphrase,
                 timestamp |-> timestamp,
                 sign |-> Signature(secret, <<ToString(timestamp), "GET", "/user/verify">>)]>>]

SubscribeFrame(instType, channel, instId) ==
    [op |-> "subscribe",
     args |-> <<[instType |-> instType, channel |-> channel, instId |-> instId]>>]

OpenedSocket == [open |-> TRUE, frames |-> << >>, login |-> "none"]

\* ws.send(frame) on an open socket.
WsSend(ws, frame) == [ws EXCEPT !.frames = Append(@, frame)]

\* The channel subscribed to once the send awaited at `at` has returned.
UserChannelAfter(at) ==
    CASE at = "await_login_send"     -> "account"
      [] at = "await_account_send"   -> "positions"
      [] at = "await_positions_send" -> "orders"

\* Called with the connection the caller has just opened: the login frame
\* goes out at once.
subscribe_to_user_stream(timestamp) ==
    /\ pc = "idle"
    /\ call' = [op |-> "subscribe_to_user_stream", timestamp |-> timestamp]
    /\ ws_user' = [WsSend(OpenedSocket, LoginFrame(timestamp)) EXCEPT !.login = "pending"]
    /\ pc' = "await_login_send"
    /\ UNCHANGED <<cfgVars, walkVars, force_update, sent, recv, gather, ret, ws_market, heart>>

\* The awaited send has returned: the next frame is sent, whatever the
\* venue has or has not answered; a send on a closed socket raises.
subscribe_to_user_stream_resume ==
    /\ pc \in {"await_login_send", "await_account_send", "await_positions_send",
              "await_orders_send"}
    /\ call.op = "subscribe_to_user_stream"
    /\ IF pc = "await_orders_send"
       THEN /\ pc' = "done"
            /\ ret' = Returned(None)
            /\ UNCHANGED ws_user
       ELSE IF ws_user.open
       THEN /\ ws_user' = WsSend(ws_user,
                                 SubscribeFrame(Upper(product_type),
                                                UserChannelAfter(pc), "default"))
            /\ pc' = "await_" \o UserChannelAfter(pc) \o "_send"
            /\ UNCHANGED ret
       ELSE /\ pc' = "done"
            /\ ret' = Raised("ConnectionClosed")
            /\ UNCHANGED ws_user
    /\ UNCHANGED <<cfgVars, walkVars, force_update, call, sent, recv, gather, ws_market, heart>>

subscribe_to_market_stream ==
    /\ pc = "idle"
    /\ call' = [op |-> "subscribe_to_market_stream"]
    /\ ws_market' = WsSend(OpenedSocket, SubscribeFrame("mc", "trade", symbol))
    /\ pc' = "await_trade_send"
    /\ UNCHANGED <<cfgVars, walkVars, force_update, sent, recv, gather, ret, ws_user, heart>>

subscribe_to_market_stream_resume ==
    /\ pc = "await_trade_send"
    /\ pc' = "done"
    /\ ret' = Returned(None)
    /\ UNCHANGED <<cfgVars, walkVars, streamVars, force_update, call, sent, recv, gather>>

\* The venue answers the login frame: accepted or refused.
venue_answers_login(accepted) ==
    /\ ws_user.open
    /\ ws_user.login = "pending"
    /\ ws_user' = [ws_user EXCEPT !.login = IF accepted THEN "ok" ELSE "failed"]
    /\ UNCHANGED <<cfgVars, walkVars, force_update, pc, call, sent, recv, gather, ret,
                   ws_market, heart>>

\* The connection behind a socket is lost.
user_connection_drops ==
    /\ ws_user.open
    /\ ws_user' = [ws_user EXCEPT !.open = FALSE]
    /\ UNCHANGED <<cfgVars, walkVars, force_update, pc, call, sent, recv, gather, ret,
                   ws_market, heart>>

market_connection_drops ==
    /\ ws_market.open
    /\ ws_market' = [ws_market EXCEPT !.open = FALSE]
    /\ UNCHANGED <<cfgVars, walkVars, force_update, pc, call, sent, recv, gather, ret,
                   ws_user, heart>>

InitSubscribe ==
    /\ product_type \in {"umcbl", "dmcbl"}
    /\ symbol = IF product_type = "umcbl" THEN "BTCUSDT_UMCBL" ELSE "BTCUSD_DMCBL"
    /\ coin = "BTC"
    /\ quote = IF product_type = "umcbl" THEN "USDT" ELSE "USD"
    /\ margin_coin = IF product_type = "dmcbl" THEN coin ELSE quote
    /\ emas_long = <<2>>
    /\ emas_short = <<2>>
    /\ ob = <<1, 3>>
    /\ force_update = 1700
    /\ pc = "idle"
    /\ call = [op |-> "none"]
    /\ sent = << >>
    /\ recv = << >>
    /\ gather = NoGather
    /\ income = << >>
    /\ page = 1
    /\ ret = NoResult
    /\ ws_user = NoSocket
    /\ ws_market = NoSocket
    /\ heart = NoHeart

NextSubscribe ==
    \/ \E timestamp \in SignTimestamps : subscribe_to_user_stream(timestamp)
    \/ subscribe_to_user_stream_resume
    \/ subscribe_to_market_stream
    \/ subscribe_to_market_stream_resume
    \/ \E accepted \in BOOLEAN : venue_answers_login(accepted)
    \/ user_connection_drops
    \/ market_connection_drops
    \/ call_returns

SpecSubscribe == InitSubscribe /\ [][NextSubscribe]_vars

-----------------------------------------------------------------------------
(* standardize_user_stream_event                                           *)

MaxEventRecords == 2    \* longest "data" array a user-stream frame carries

\* Order records: with and without a status, of this symbol and of another.
OrderEventElms ==
    LET base == [instId : {"BTCUSDT_UMCBL", "BTCUSD_DMCBL"}, ordId : {"o1"}, px : {20159},
                 sz : {3}, ordType : {"limit"}, side : {"buy"}, posSide : {"long"},
                 uTime : {1700000000}]
        statuses == {"cancelled", "new", "partial-fill", "full-fill", "init"}
    IN  base \cup { [status |-> s] @@ e : s \in statuses, e \in base }
PositionEventElms ==
    LET base == [instId : {"BTCUSDT_UMCBL", "BTCUSD_DMCBL"}, holdSide : PosSides, total : {-3}]
    IN  base \cup { [averageOpenPrice |-> 20159] @@ e : e \in base }
AccountEventElms == [marginCoin : {"BTC", "USDT", "USD"}, available : {5}]

UserStreamFrames ==
    { [event |-> "login", code |-> 0] }
    \cup { [arg |-> [instType |-> "UMCBL", channel |-> "orders", instId |-> "default"],
            data |-> d] : d \in SeqsUpTo(OrderEventElms, MaxEventRecords) }
    \cup { [arg |-> [instType |-> "UMCBL", channel |-> "positions", instId |-> "default"],
            data |-> d] : d \in SeqsUpTo(PositionEventElms, MaxEventRecords) }
    \cup { [arg |-> [instType |-> "UMCBL", channel |-> "account", instId |-> "default"],
            data |-> d] : d \in SeqsUpTo(AccountEventElms, MaxEventRecords) }

\* What one order record of this symbol that has a status is turned into.
StandardizedOrder(elm) ==
    CASE elm.status = "cancelled" ->
             [py |-> "dict", deleted_order_id |-> elm.ordId]
      [] elm.status = "new" ->
             [py |-> "dict",
              new_open_order |->
                  [py |-> "dict",
                   order_id |-> elm.ordId,
                   symbol |-> elm.instId,
                   price |-> elm.px,
                   qty |-> elm.sz,
                   type |-> elm.ordType,
                   side |-> elm.side,
                   position_side |-> elm.posSide,
                   timestamp |-> elm.uTime]]
      [] elm.status = "partial-fill" ->
             [py |-> "dict", deleted_order_id |-> elm.ordId, partially_filled |-> TRUE]
      [] elm.status = "full-fill" ->
             [py |-> "dict", deleted_order_id |-> elm.ordId, filled |-> TRUE]
      [] OTHER -> EmptyDict

RECURSIVE StandardizeOrders(_)
StandardizeOrders(data) ==
    IF data = << >> THEN << >>
    ELSE LET elm == Head(data)
         IN  (IF elm.instId = symbol /\ "status" \in DOMAIN elm
              THEN <<StandardizedOrder(elm)>>
              ELSE << >>) \o StandardizeOrders(Tail(data))

StandardizedPosition(elm) ==
    LET psize == round_(Abs(elm.total), qty_step)
                     * (IF elm.holdSide = "short" THEN -1 ELSE 1)
        pprice == truncate_float(elm.averageOpenPrice, price_rounding)
    IN  [py |-> "dict"] @@ (("psize_" \o elm.holdSide) :> psize)
                        @@ (("pprice_" \o elm.holdSide) :> pprice)

RECURSIVE StandardizePositions(_)
StandardizePositions(data) ==
    IF data = << >> THEN << >>
    ELSE LET elm == Head(data)
         IN  (IF elm.instId = symbol /\ "averageOpenPrice" \in DOMAIN elm
              THEN <<StandardizedPosition(elm)>>
              ELSE << >>) \o StandardizePositions(Tail(data))

RECURSIVE StandardizeAccount(_)
StandardizeAccount(data) ==
    IF data = << >> THEN << >>
    ELSE LET elm == Head(data)
         IN  (IF elm.marginCoin = quote
              THEN <<[py |-> "dict", wallet_balance |-> elm.available]>>
              ELSE << >>) \o StandardizeAccount(Tail(data))

StandardizeUserStreamEvent(event) ==
    IF "arg" \in DOMAIN event /\ "data" \in DOMAIN event /\ "channel" \in DOMAIN event.arg
    THEN CASE event.arg.channel = "orders"    -> StandardizeOrders(event.data)
           [] event.arg.channel = "positions" -> StandardizePositions(event.data)
           [] event.arg.channel = "account"   -> StandardizeAccount(event.data)
           [] OTHER -> << >>
    ELSE << >>

standardize_user_stream_event(event) ==
    /\ pc = "idle"
    /\ call' = [op |-> "standardize_user_stream_event", event |-> event]
    /\ ret' = Returned(StandardizeUserStreamEvent(event))
    /\ pc' = "done"
    /\ UNCHANGED <<cfgVars, walkVars, streamVars, force_update, sent, recv, gather>>

NextEvents ==
    \/ \E event \in UserStreamFrames : standardize_user_stream_event(event)
    \/ call_returns

SpecEvents == InitSubscribe /\ [][NextEvents]_vars

-----------------------------------------------------------------------------
(* beat_heart_user_stream and beat_heart_market_stream.  A task is where   *)
(* it stands in its loop, the seconds slept so far, the pings attempted    *)
(* and the failures logged.                                                *)

MaxPings == 2            \* pings each heartbeat task is followed for
heartbeat_interval == 27 \* asyncio.sleep(27)

Socket(stream) == IF stream = "user" THEN ws_user ELSE ws_market
PingFrame == [op |-> "ping"]

StartedTask == [pc |-> "sleep", slept |-> 0, attempts |-> 0, logged |-> 0]

\* A loop without the try: the exception of a failed send ends the task.
AfterPing_unguarded(task, ok) ==
    IF ok
    THEN [task EXCEPT !.slept = 0, !.attempts = @ + 1]
    ELSE [task EXCEPT !.pc = "ended", !.attempts = @ + 1]

\* The task after a send attempt: a failure is printed and the loop goes on.
AfterPing(task, ok) ==
    [pc |-> "sleep",
     slept |-> 0,
     attempts |-> task.attempts + 1,
     logged |-> IF ok THEN task.logged ELSE task.logged + 1]

\* A second of asyncio.sleep(27) passes for a task.
beat_heart_sleeps(stream) ==
    /\ heart[stream].pc = "sleep"
    /\ heart[stream].slept < heartbeat_interval
    /\ heart' = [heart EXCEPT ![stream].slept = @ + 1]
    /\ UNCHANGED <<cfgVars, walkVars, force_update, pc, call, sent, recv, gather, ret,
                   ws_user, ws_market>>

\* The sleep is over: the ping is sent, or the send raises (always on a
\* closed socket) and the except branch prints the error.
beat_heart_pings(stream, ok) ==
    /\ heart[stream].pc = "sleep"
    /\ heart[stream].slept = heartbeat_interval
    /\ heart[stream].attempts < MaxPings
    /\ ok => Socket(stream).open
    /\ heart' = [heart EXCEPT ![stream] = AfterPing(@, ok)]
    /\ ws_user' = IF ok /\ stream = "user" THEN WsSend(ws_user, PingFrame) ELSE ws_user
    /\ ws_market' = IF ok /\ stream = "market" THEN WsSend(ws_market, PingFrame)
                    ELSE ws_market
    /\ UNCHANGED <<cfgVars, walkVars, force_update, pc, call, sent, recv, gather, ret>>

beat_heart_user_stream ==
    \/ beat_heart_sleeps("user")
    \/ \E ok \in BOOLEAN : beat_heart_pings("user", ok)

beat_heart_market_stream ==
    \/ beat_heart_sleeps("market")
    \/ \E ok \in BOOLEAN : beat_heart_pings("market", ok)

\* Both streams connected and both heartbeat tasks just created.
InitHeartbeat ==
    /\ product_type = "umcbl"
    /\ symbol = "BTCUSDT_UMCBL"
    /\ coin = "BTC"
    /\ quote = "USDT"
    /\ margin_coin = quote
    /\ emas_long = <<2>>
    /\ emas_short = <<8>>
    /\ ob = <<1, 3>>
    /\ force_update = 1700
    /\ pc = "idle"
    /\ call = [op |-> "none"]
    /\ sent = << >>
    /\ recv = << >>
    /\ gather = NoGather
    /\ income = << >>
    /\ page = 1
    /\ ret = NoResult
    /\ ws_user = OpenedSocket
    /\ ws_market = OpenedSocket
    /\ heart = [user |-> StartedTask, market |-> StartedTask]

NextHeartbeat ==
    \/ beat_heart_user_stream
    \/ beat_heart_market_stream
    \/ user_connection_drops
    \/ market_connection_drops

SpecHeartbeat == InitHeartbeat /\ [][NextHeartbeat]_vars

-----------------------------------------------------------------------------
(* Properties.                                                             *)

Finished(op) == pc = "done" /\ call.op = op

\* TRUE when a create-order answer carries no data payload or the request raised.
NoDataPayload(o) ==
    \/ o.kind = "raise"
    \/ "data" \notin DOMAIN o.body
    \/ ~Truthy(o.body.data)

\* C1: execute_order returns the empty result {} whenever the request or the
\* decoding raised and whenever the answer carries no data payload.
C1_EmptyResultOnEveryFailure ==
    (Finished("execute_order") /\ Len(recv) = 1 /\ NoDataPayload(recv[1]))
        => ret = Returned(EmptyDict)

\* C2: whenever the venue answers create-order with a data payload holding
\* the order id, execute_order returns an Order with that id and the echoed
\* symbol, side, position_side, type, qty and (when the order has one) price.
C2_OrderOnEveryAcceptance ==
    (/\ Finished("execute_order")
     /\ Len(recv) = 1
     /\ ~NoDataPayload(recv[1])
     /\ "orderId" \in DOMAIN recv[1].body.data)
        => /\ ret.kind = "return"
           /\ "order_id" \in DOMAIN ret.val
           /\ ret.val.order_id = recv[1].body.data.orderId
           /\ ret.val.symbol = symbol
           /\ ret.val.side = call.order.side
           /\ ret.val.position_side = call.order.position_side
           /\ ret.val.type = call.order.type
           /\ ret.val.qty = call.order.qty
           /\ ("price" \in DOMAIN call.order => ret.val.price = call.order.price)

\* TRUE when a cancellation cannot give an Order: the request raised, the
\* answer has no data or no orderId, or the order lacks a field that is read.
CancellationFailed(order, answers) ==
    \/ ~({"order_id", "side", "position_side", "qty", "price"} \subseteq DOMAIN order)
    \/ Len(answers) = 0
    \/ answers[1].kind = "raise"
    \/ "data" \notin DOMAIN answers[1].body
    \/ "orderId" \notin DOMAIN answers[1].body.data

\* C3: every step that finishes execute_cancellation returns (never raises);
\* on a failure it returns {} and leaves force_update at 0, otherwise it
\* returns the Order with the venue's order id and leaves force_update as it was.
C3_CancellationFailurePolicy ==
    [][ (pc # "done" /\ pc' = "done" /\ call'.op = "execute_cancellation")
          => /\ ret'.kind = "return"
             /\ IF CancellationFailed(call'.order, recv')
                THEN ret'.val = EmptyDict /\ force_update' = 0
                ELSE /\ "order_id" \in DOMAIN ret'.val
                     /\ ret'.val.order_id = recv'[1].body.data.orderId
                     /\ ret'.val.side = call'.order.side
                     /\ force_update' = force_update ]_vars

C3_Witness ==
    /\ Finished("execute_cancellation")
    /\ Len(recv) = 1
    /\ recv[1].kind = "json"
    /\ "data" \in DOMAIN recv[1].body
    /\ recv[1].body.data = Null
    /\ ret = Returned(EmptyDict)
    /\ force_update = 0

HasSide(data, side) == \E i \in DOMAIN data : data[i].holdSide = side

\* C4: whatever the venue reports, the snapshot fetch_position returns has
\* short.size <= 0 and long.size >= 0, and a side absent from the response is
\* flat (size, price and liquidation price 0).
C4_SignedSizes ==
    (Finished("fetch_position") /\ ret.kind = "return")
        => /\ ret.val.short.size <= 0
           /\ ret.val.long.size >= 0
           /\ (~HasSide(gather.pos.body.data.v, "long") => ret.val.long = FlatSide)
           /\ (~HasSide(gather.pos.body.data.v, "short") => ret.val.short = FlatSide)

\* C5: fetch_position issues both requests before either answer; it returns
\* a snapshot only when both answers have arrived, the snapshot shows the
\* position answer (a reported side is not flat) and the balance answer (a
\* record of the margin coin gives a balance), and when a request failed the
\* call raises instead of returning.
C5_JoinsBothRequests ==
    /\ (call.op = "fetch_position" => Len(sent) = 2)
    /\ Finished("fetch_position") =>
          /\ (gather.pos.st = "raised" \/ gather.bal.st = "raised") => ret.kind = "raise"
          /\ ret.kind = "return" =>
                /\ gather.pos.st = "done" /\ gather.bal.st = "done"
                /\ \A side \in PosSides :
                      HasSide(gather.pos.body.data.v, side) => ret.val[side].price # 0
                /\ (\E i \in DOMAIN gather.bal.body.data.v :
                        gather.bal.body.data.v[i].marginCoin = margin_coin)
                      => ret.val.wallet_balance.num # 0

C5_Witness ==
    /\ Finished("fetch_position")
    /\ ret.kind = "return"
    /\ gather.pos.st = "done" /\ gather.bal.st = "done"
    /\ ret.val.long.price # 0
    /\ ret.val.short.size < 0
    /\ ret.val.wallet_balance.num # 0

\* C6: fetch_fills returns an empty sequence, and does not raise, whenever a
\* request made during the call fails with a transport error.
C6_EmptyFillsOnTransportError ==
    (Finished("fetch_fills") /\ \E i \in DOMAIN recv : recv[i].kind = "raise")
        => ret = Returned(<< >>)

\* C7: a fetch_ohlcvs call with an interval outside the table has raised
\* without issuing any request, with or without a start_time.
C7_UnsupportedIntervalFailsFirst ==
    (call.op = "fetch_ohlcvs" /\ call.interval \notin SupportedIntervals)
        => sent = << >> /\ pc = "done" /\ ret.kind = "raise"

C7_Witness ==
    /\ Finished("fetch_ohlcvs")
    /\ call.interval = "2h"
    /\ call.start_time = None
    /\ ret = Raised("AssertionError")
    /\ sent = << >>

\* C8: every unsupported operation raises when called, issues no request and
\* returns no value.
C8_UnsupportedOperationsRaise ==
    (pc = "done" /\ call.op \in UnsupportedOps)
        => ret.kind = "raise" /\ sent = << >>

NoDuplicateIds(xs) ==
    \A i, j \in DOMAIN xs : xs[i].transaction_id = xs[j].transaction_id => i = j
AscendingTimestamps(xs) ==
    \A i, j \in DOMAIN xs : i < j => xs[i].timestamp <= xs[j].timestamp

StatedIntent(side, position_side) ==
    CASE side = "buy"  /\ position_side = "long"  -> "open_long"
      [] side = "sell" /\ position_side = "long"  -> "close_long"
      [] side = "buy"  /\ position_side = "short" -> "close_short"
      [] side = "sell" /\ position_side = "short" -> "open_short"

IntentPositionSide(intent) == IF ContainsLong(intent) THEN "long" ELSE "short"

\* C10: the intent execute_order submits is the stated one, and translating
\* it back as fetch_fills and fetch_open_orders do recovers the order's side
\* and position_side; every fill and every open order (whose posSide is the
\* one its intent names) that is translated back maps forward to the
\* intent the venue reported.
C10_DirectionRoundTrip ==
    /\ (call.op = "execute_order" /\ Len(sent) = 1) =>
          LET order == call.order
              intent == sent[1].params.side
          IN  /\ intent = StatedIntent(order.side, order.position_side)
              /\ fill_side_map[intent] = order.side
              /\ IntentPositionSide(intent) = order.position_side
              /\ OpenOrderSide(intent) = order.side
    /\ (Finished("fetch_fills") /\ ret.kind = "return") =>
          \A i \in DOMAIN ret.val :
              order_side_map[ret.val[i].side][ret.val[i].position_side]
                  = recv[Len(recv)].body.data.v[i].side
    /\ (Finished("fetch_open_orders") /\ ret.kind = "return") =>
          \A i \in DOMAIN ret.val :
              LET elm == recv[1].body.data.v[i]
              IN  elm.posSide = IntentPositionSide(elm.side)
                    => order_side_map[ret.val[i].side][ret.val[i].position_side] = elm.side

C10_Witness ==
    /\ Finished("fetch_fills")
    /\ ret.kind = "return"
    /\ Len(ret.val) > 0
    /\ ret.val[1].side = "buy"
    /\ ret.val[1].position_side = "short"
    /\ recv[Len(recv)].body.data.v[1].side = "close_short"

ItemSet(d) == { d[i] : i \in DOMAIN d }

\* The text each value is to be signed as.
StatedText(v) ==
    CASE v = [t |-> "bool", b |-> TRUE]  -> "true"
      [] v = [t |-> "bool", b |-> FALSE] -> "false"
      [] v = [t |-> "int", n |-> 20]     -> "20"
      [] v = [t |-> "str", s |-> "BTCUSDT_UMCBL"] -> "BTCUSDT_UMCBL"

\* The k=v pairs found in a signed string.
SignedPairs(to_sign) ==
    { <<to_sign[i - 1], to_sign[i + 1]>> :
        i \in { j \in DOMAIN to_sign : to_sign[j] = "=" } }

\* C11: two GET requests whose params hold the same items, in whatever
\* insertion order, with the same timestamp and path are signed over the same
\* string and carry the same signature; every boolean is signed as "true" or
\* "false" and every other value as its string form.
C11_GetCanonicalSigning ==
    /\ \A i, j \in DOMAIN sent :
          (/\ sent[i].type_ = "get"
           /\ sent[j].type_ = "get"
           /\ ItemSet(sent[i].params) = ItemSet(sent[j].params)
           /\ sent[i].timestamp = sent[j].timestamp
           /\ sent[i].url = sent[j].url)
             => /\ sent[i].to_sign = sent[j].to_sign
                /\ sent[i].header.access_sign = sent[j].header.access_sign
    /\ \A i \in DOMAIN sent :
          sent[i].type_ = "get" =>
             SignedPairs(sent[i].to_sign)
                 = { <<it.k, StatedText(it.v)>> : it \in ItemSet(sent[i].params) }

C11_Witness ==
    /\ call.op = "private_get"
    /\ Len(sent) = 2
    /\ sent[1].type_ = "get"
    /\ sent[2].type_ = "get"
    /\ Len(sent[1].params) = 2
    /\ sent[1].params # sent[2].params
    /\ ItemSet(sent[1].params) = ItemSet(sent[2].params)
    /\ sent[1].timestamp = sent[2].timestamp
    /\ \E i \in DOMAIN sent[1].params : sent[1].params[i].v.t = "bool"
    /\ sent[1].to_sign = sent[2].to_sign

SubscribeSent(ws) == \E i \in DOMAIN ws.frames : ws.frames[i].op = "subscribe"

\* The frames of a whole subscription: login, then account, positions,
\* orders, one channel per frame.
UserFrameOrder ==
    (call.op = "subscribe_to_user_stream" /\ pc = "done" /\ ret = Returned(None))
       => /\ Len(ws_user.frames) = 4
          /\ ws_user.frames[1].op = "login"
          /\ \A i \in 2..4 :
                /\ ws_user.frames[i].op = "subscribe"
                /\ Len(ws_user.frames[i].args) = 1
          /\ <<ws_user.frames[2].args[1].channel,
               ws_user.frames[3].args[1].channel,
               ws_user.frames[4].args[1].channel>> = <<"account", "positions", "orders">>

\* C12: on the user stream every subscribe frame comes after the login frame,
\* the three channels are subscribed to one per frame, and a subscribe frame
\* is on the wire only of a session whose login has succeeded.
C12_SubscribeOnlyAfterLoginSucceeded ==
    /\ \A i \in DOMAIN ws_user.frames :
          ws_user.frames[i].op = "subscribe"
             => \E j \in 1..(i - 1) : ws_user.frames[j].op = "login"
    /\ UserFrameOrder
    /\ SubscribeSent(ws_user) => ws_user.login = "ok"

OrdersFrame ==
    /\ Finished("standardize_user_stream_event")
    /\ "arg" \in DOMAIN call.event
    /\ call.event.arg.channel = "orders"

\* The order the venue's record describes, in the adapter's form.
StatedOrder(elm) ==
    [py |-> "dict", order_id |-> elm.ordId, symbol |-> elm.instId, price |-> elm.px,
     qty |-> elm.sz, type |-> elm.ordType, side |-> elm.side,
     position_side |-> elm.posSide, timestamp |-> elm.uTime]

\* What the record of each of the four statuses is to be turned into.
StatedOrderEvent(elm) ==
    CASE elm.status = "cancelled" ->
             [py |-> "dict", deleted_order_id |-> elm.ordId]
      [] elm.status = "new" ->
             [py |-> "dict", new_open_order |-> StatedOrder(elm)]
      [] elm.status = "partial-fill" ->
             [py |-> "dict", deleted_order_id |-> elm.ordId, partially_filled |-> TRUE]
      [] elm.status = "full-fill" ->
             [py |-> "dict", deleted_order_id |-> elm.ordId, filled |-> TRUE]

StatedStatuses == {"cancelled", "new", "partial-fill", "full-fill"}

\* C13: for an orders-channel frame every record of the adapter's symbol with
\* status cancelled, new, partial-fill or full-fill is turned into the event
\* stated for that status, every emitted record is such an event, and records
\* of another symbol emit nothing.
C13_OrderEventShapes ==
    OrdersFrame =>
       /\ \A i \in DOMAIN ret.val :
             \E j \in DOMAIN call.event.data :
                /\ call.event.data[j].instId = symbol
                /\ "status" \in DOMAIN call.event.data[j]
                /\ call.event.data[j].status \in StatedStatuses
                /\ ret.val[i] = StatedOrderEvent(call.event.data[j])
       /\ \A j \in DOMAIN call.event.data :
             LET elm == call.event.data[j]
             IN  (/\ elm.instId = symbol
                  /\ "status" \in DOMAIN elm
                  /\ elm.status \in StatedStatuses)
                    => \E i \in DOMAIN ret.val : ret.val[i] = StatedOrderEvent(elm)

AccountFrame ==
    /\ Finished("standardize_user_stream_event")
    /\ "arg" \in DOMAIN call.event
    /\ call.event.arg.channel = "account"

\* The records of a frame that carry the given coin, in order.
RECURSIVE RecordsOfCoin(_, _)
RecordsOfCoin(data, c) ==
    IF data = << >> THEN << >>
    ELSE (IF Head(data).marginCoin = c THEN <<Head(data)>> ELSE << >>)
             \o RecordsOfCoin(Tail(data), c)

\* C14: for an account-channel frame one {wallet_balance} record is emitted
\* for each data record whose marginCoin is the margin asset (the quote coin
\* on linear contracts, the base coin on inverse contracts), and none for any
\* other marginCoin.
C14_AccountEventsOfMarginCoin ==
    AccountFrame =>
       LET asset == IF product_type = "dmcbl" THEN coin ELSE quote
           records == RecordsOfCoin(call.event.data, asset)
       IN  /\ asset = margin_coin
           /\ Len(ret.val) = Len(records)
           /\ \A i \in DOMAIN ret.val :
                 ret.val[i] = [py |-> "dict", wallet_balance |-> records[i].available]

\* The balance records of the margin coin in the balance answer, in order.
MarginRecords == RecordsOfCoin(gather.bal.body.data.v, margin_coin)

AnyEmaZero ==
    \/ \E i \in DOMAIN emas_long : emas_long[i] = 0
    \/ \E i \in DOMAIN emas_short : emas_short[i] = 0

\* The price stated for the conversion, as a fraction.
StatedConversionPrice ==
    IF AnyEmaZero
    THEN [num |-> ob[1] + ob[2], den |-> 2]
    ELSE [num |-> SumSeq(emas_long) + SumSeq(emas_short),
          den |-> Len(emas_long) + Len(emas_short)]

\* C15: fetch_position on an inverse contract returns as wallet_balance the
\* available balance of the first record of the margin coin times the mean of
\* all EMAs when none is zero, and times the mean of bid and ask when any EMA
\* is zero; on a linear contract it returns that available balance as it is.
C15_InverseBalanceConversion ==
    (Finished("fetch_position") /\ ret.kind = "return" /\ MarginRecords # << >>)
       => LET available == MarginRecords[1].available
              wb == ret.val.wallet_balance
              price == StatedConversionPrice
          IN  IF product_type = "dmcbl"
              THEN wb.num * price.den = available * price.num * wb.den
              ELSE wb.num = available * wb.den

C15_Witness ==
    /\ Finished("fetch_position")
    /\ ret.kind = "return"
    /\ product_type = "dmcbl"
    /\ AnyEmaZero
    /\ \E i \in DOMAIN emas_short : emas_short[i] # 0
    /\ Len(MarginRecords) = 2
    /\ MarginRecords[1].available # MarginRecords[2].available
    /\ ret.val.wallet_balance.num * 2
          = MarginRecords[1].available * (ob[1] + ob[2]) * ret.val.wallet_balance.den

Streams == {"user", "market"}
OtherStream(stream) == IF stream = "user" THEN "market" ELSE "user"

\* A step in which the task of a stream attempts a ping.
PingAttempted(stream) ==
    /\ heart[stream].pc = "sleep"
    /\ heart'[stream].attempts = heart[stream].attempts + 1

\* A ping attempt that failed: the socket's frames are as they were.
PingFailed(stream) ==
    /\ PingAttempted(stream)
    /\ (IF stream = "user" THEN ws_user' = ws_user ELSE ws_market' = ws_market)

\* C16: a heartbeat task attempts a ping only after 27 seconds of sleep, and
\* after the attempt, failed or not, it is sleeping again from zero; a failed
\* attempt is logged, ends no task and closes no socket, and an attempt on
\* one stream leaves the other stream's task and socket as they were.
C16_HeartbeatSurvivesFailedPing ==
    [][\A stream \in Streams :
          PingAttempted(stream) =>
             /\ heart[stream].slept = heartbeat_interval
             /\ heart'[stream].pc = "sleep"
             /\ heart'[stream].slept = 0
             /\ heart'[OtherStream(stream)] = heart[OtherStream(stream)]
             /\ ws_user'.open = ws_user.open
             /\ ws_market'.open = ws_market.open
             /\ (stream = "user" => ws_market' = ws_market)
             /\ (stream = "market" => ws_user' = ws_user)
             /\ (PingFailed(stream) => heart'[stream].logged = heart[stream].logged + 1)
             /\ (~PingFailed(stream) =>
                    /\ heart'[stream].logged = heart[stream].logged
                    /\ (IF stream = "user"
                        THEN ws_user'.frames = Append(ws_user.frames, PingFrame)
                        ELSE ws_market'.frames = Append(ws_market.frames, PingFrame)))]_vars

\* A failed ping on the open user socket, then a full sleep and a ping that
\* went out, while the market task made its own pings.
C16_Witness ==
    /\ heart.user.attempts = 2
    /\ heart.user.logged = 1
    /\ ws_user.open
    /\ ws_user.frames = <<PingFrame>>
    /\ heart.user.pc = "sleep"
    /\ heart.market.attempts = 2
    /\ heart.market.logged = 0

====
